---- MODULE Spec2Model ----
(***************************************************************************)
(* A model of stub_package.py: the signature reconstructor                 *)
(* (format_arguments), the docstring formatter (_format_docstring), the    *)
(* declaration renderers (stub_function, stub_class), the module projector *)
(* (stub_module) and the tree walker (_sort_key, stub_package).            *)
(*                                                                         *)
(* Text is modelled as TLA+ strings, character by character: Len, SubSeq   *)
(* and \o act on strings as they do on sequences.  An optional value       *)
(* (Python's None or a value) is a sequence of length 0 or 1.              *)
(***************************************************************************)
EXTENDS Integers, Sequences, FiniteSets, TLC

VARIABLES
    pc,                  \* which call has returned
    doc, indent,         \* _format_docstring's arguments
    block, again,        \* its result, and its result on that result
    node,                \* format_arguments' ast.arguments
    parts,               \* format_arguments' list of fragments
    sig,                 \* format_arguments' result
    tree,                \* stub_module's parsed module body
    include_docstrings,  \* not --no-docstrings
    include_private,     \* not --no-private
    out,                 \* stub_module's or stub_package's result
    path,                \* stub_package's path: a file, or a directory
    py_files,            \* stub_package's sorted list of the *.py files
    sections             \* stub_package's list of sections

vars == <<pc, doc, indent, block, again, node, parts, sig, tree,
          include_docstrings, include_private, out, path, py_files, sections>>

-----------------------------------------------------------------------------
(* Bounds of the model.                                                    *)

MaxDocLen == 4

MaxPosOnly == 2

MaxArgs == 2

MaxKwOnly == 2

MaxBody == 2

MaxFiles == 5

-----------------------------------------------------------------------------
(* Python's None, and str methods.                                         *)

None == <<>>

Some(x) == <<x>>

NL == "\n"

QQQ == "\"\"\""

Char(s, i) == SubSeq(s, i, i)

\* The characters str.strip() removes, among those the model's texts hold.
IsSpace(c) == c \in {" ", "\t", "\n"}

StartsWith(s, p) == Len(p) <= Len(s) /\ SubSeq(s, 1, Len(p)) = p

EndsWith(s, p) == Len(p) <= Len(s) /\ SubSeq(s, Len(s) - Len(p) + 1, Len(s)) = p

\* s.rstrip()
RECURSIVE RStrip(_)
RStrip(s) ==
    IF Len(s) > 0 /\ IsSpace(Char(s, Len(s)))
    THEN RStrip(SubSeq(s, 1, Len(s) - 1))
    ELSE s

\* s.strip() is non-empty
HasText(s) == \E i \in 1..Len(s) : ~IsSpace(Char(s, i))

\* s.split("\n") from index from on, the line breaks of s being at nl
RECURSIVE SplitFrom(_, _, _)
SplitFrom(s, nl, from) ==
    LET later == {i \in nl : i >= from}
    IN  IF later = {} THEN <<SubSeq(s, from, Len(s))>>
        ELSE LET i == CHOOSE i \in later : \A j \in later : i <= j
             IN  <<SubSeq(s, from, i - 1)>> \o SplitFrom(s, nl, i + 1)

\* s.split("\n")
Split(s) == SplitFrom(s, {i \in 1..Len(s) : Char(s, i) = NL}, 1)

\* sep.join(xs)
RECURSIVE Join(_, _)
Join(sep, xs) ==
    IF Len(xs) = 0 THEN ""
    ELSE IF Len(xs) = 1 THEN xs[1]
    ELSE xs[1] \o sep \o Join(sep, Tail(xs))

\* The strings of at most n characters over the alphabet.
RECURSIVE Strings(_, _)
Strings(alphabet, n) ==
    IF n = 0 THEN {""}
    ELSE LET shorter == Strings(alphabet, n - 1)
         IN  shorter \cup {s \o c : s \in shorter, c \in alphabet}

-----------------------------------------------------------------------------
(* _format_docstring                                                       *)

\* The for loop of _format_docstring over lines[1:].
RECURSIVE IndentLines(_, _)
IndentLines(lines, ind) ==
    IF Len(lines) = 0 THEN ""
    ELSE (IF HasText(lines[1]) THEN ind \o lines[1] \o NL ELSE NL)
         \o IndentLines(Tail(lines), ind)

\* An idempotent variant: a block that is already quoted is left as it is.
FormatDocstringOnce(d, ind) ==
    LET lines == Split(d)
    IN  IF StartsWith(d, ind \o QQQ) THEN d
        ELSE IF Len(lines) = 1 THEN ind \o QQQ \o d \o QQQ \o NL
        ELSE LET result == ind \o QQQ \o lines[1] \o NL
                           \o IndentLines(Tail(lines), ind)
             IN  IF ~EndsWith(RStrip(result), QQQ)
                 THEN result \o ind \o QQQ \o NL
                 ELSE result

_format_docstring(d, ind) ==
    LET lines == Split(d)
    IN  IF Len(lines) = 1 THEN ind \o QQQ \o d \o QQQ \o NL
        ELSE LET result == ind \o QQQ \o lines[1] \o NL
                           \o IndentLines(Tail(lines), ind)
             IN  IF ~EndsWith(RStrip(result), QQQ)
                 THEN result \o ind \o QQQ \o NL
                 ELSE result

-----------------------------------------------------------------------------
(* The docstring formatter on its own: every text of at most MaxDocLen     *)
(* characters, formatted, and the result formatted again.                  *)

DocAlphabet == {"a", " ", "\n", "\""}

Indents == {"", "    "}

IdleDoc ==
    /\ doc = "" /\ indent = "" /\ block = None /\ again = None

IdleArgs ==
    /\ node = None /\ parts = <<>> /\ sig = None

IdleModule ==
    /\ tree = <<>> /\ include_docstrings = TRUE /\ include_private = TRUE
    /\ out = None

IdlePackage ==
    /\ path = None /\ py_files = <<>> /\ sections = <<>>

InitDoc ==
    /\ pc = "start"
    /\ doc \in Strings(DocAlphabet, MaxDocLen)
    /\ indent \in Indents
    /\ block = None /\ again = None
    /\ IdleArgs /\ IdleModule /\ IdlePackage

FormatDocstring ==
    /\ pc = "start"
    /\ block' = Some(_format_docstring(doc, indent))
    /\ pc' = "formatted"
    /\ UNCHANGED <<doc, indent, again, node, parts, sig, tree,
                   include_docstrings, include_private, out,
                   path, py_files, sections>>

FormatAgain ==
    /\ pc = "formatted"
    /\ again' = Some(_format_docstring(block[1], indent))
    /\ pc' = "reformatted"
    /\ UNCHANGED <<doc, indent, block, node, parts, sig, tree,
                   include_docstrings, include_private, out,
                   path, py_files, sections>>

NextDoc == FormatDocstring \/ FormatAgain

SpecDoc == InitDoc /\ [][NextDoc]_vars

-----------------------------------------------------------------------------
(* Claims about the docstring formatter, checked under SpecDoc.            *)

\* s.lstrip()
RECURSIVE LStrip(_)
LStrip(s) ==
    IF Len(s) > 0 /\ IsSpace(Char(s, 1)) THEN LStrip(Tail(s)) ELSE s

\* s.strip()
Strip(s) == LStrip(RStrip(s))

\* The index of the last line with text in it, 0 when there is none.
LastTextLine(lines) ==
    IF \E i \in 1..Len(lines) : HasText(lines[i])
    THEN CHOOSE i \in 1..Len(lines) :
             /\ HasText(lines[i])
             /\ \A j \in (i + 1)..Len(lines) : ~HasText(lines[j])
    ELSE 0

\* C8, as stated: formatting a block that _format_docstring produced, with
\* the same indent, yields the same block.
C8_Idempotent ==
    pc = "reformatted" => again[1] = block[1]

\* C8, amended: formatting a formatted block again never yields that block.
\* The block keeps its lines: a new opening triple-quote at the indent goes
\* before its first line, each later line with text is prefixed with the
\* indent once more, each blank line is emitted empty, and no closing
\* triple-quote is appended.
C8_Rewrapped ==
    pc = "reformatted" =>
        LET bl == Split(block[1])
            al == Split(again[1])
        IN  /\ again[1] # block[1]
            /\ Len(al) = Len(bl) + 1
            /\ al[1] = indent \o QQQ \o bl[1]
            /\ \A i \in 2..Len(bl) :
                   al[i] = IF HasText(bl[i]) THEN indent \o bl[i] ELSE ""
            /\ al[Len(al)] = ""

\* A multi-line docstring with text after its first line has been formatted
\* twice.
C8_Witness ==
    /\ pc = "reformatted"
    /\ indent = "    "
    /\ doc = "a\na"
    /\ block[1] = "    \"\"\"a\n    a\n    \"\"\"\n"

\* C10: for a text with a line break, the block starts with the indent, the
\* opening triple-quote and the first line; every later line with text is
\* prefixed with the indent and every blank line is emitted empty; and the
\* block's last line with text is a closing triple-quote on its own line,
\* which is not the line of the opening one.
C10_MultiLineClosed ==
    (pc = "formatted" /\ Len(Split(doc)) > 1) =>
        LET lines == Split(doc)
            bl == Split(block[1])
            last == LastTextLine(bl)
        IN  /\ StartsWith(block[1], indent \o QQQ \o lines[1] \o NL)
            /\ Len(bl) >= Len(lines)
            /\ \A i \in 2..Len(lines) :
                   bl[i] = IF HasText(lines[i]) THEN indent \o lines[i] ELSE ""
            /\ last >= 2
            /\ Strip(bl[last]) = QQQ

-----------------------------------------------------------------------------
(* ast: expressions, ast.unparse, ast.arg and ast.arguments.               *)

\* The expressions of the model: integer constants, string constants and
\* names.
Constant(v) == [type |-> "Constant", kind |-> "int", value |-> v]

Str(v) == [type |-> "Constant", kind |-> "str", value |-> v]

Name(id) == [type |-> "Name", id |-> id]

\* ast.unparse of an expression
unparseExpr(e) ==
    IF e.type = "Name" THEN e.id
    ELSE IF e.kind = "int" THEN ToString(e.value)
    ELSE "'" \o e.value \o "'"

\* ast.unparse of an expression, an assignment or an import
unparse(e) ==
    IF e.type = "Assign"
    THEN e.target \o " = " \o unparseExpr(e.value)
    ELSE IF e.type = "AnnAssign"
    THEN e.target \o ": " \o unparseExpr(e.annotation)
    ELSE IF e.type = "Import"
    THEN "import " \o e.name
    ELSE unparseExpr(e)

Arg(name, annotation) == [arg |-> name, annotation |-> annotation]

\* Which parameters of a list carry an annotation.
AnnotationPatterns == {"none", "all", "odd"}

Annotation(pattern, i) ==
    IF pattern = "all" \/ (pattern = "odd" /\ i % 2 = 1)
    THEN Some(Name("int"))
    ELSE None

\* The ast.arguments of a def with p positional-only parameters p1.., q
\* positional-or-keyword parameters a1.., d defaults 10, 11, .. for the
\* last d of them, keyword-only parameters k1.. with the defaults kwd,
\* and *args and **kwargs as asked.
Arguments(p, q, d, kwd, va, kw, pattern) ==
    [posonlyargs |-> [i \in 1..p |->
                         Arg("p" \o ToString(i), Annotation(pattern, i))],
     args        |-> [i \in 1..q |->
                         Arg("a" \o ToString(i), Annotation(pattern, p + i))],
     defaults    |-> [i \in 1..d |-> Constant(9 + i)],
     vararg      |-> IF va THEN Some(Arg("args", Annotation(pattern, 1)))
                     ELSE None,
     kwonlyargs  |-> [i \in 1..Len(kwd) |->
                         Arg("k" \o ToString(i), Annotation(pattern, i))],
     kw_defaults |-> kwd,
     kwarg       |-> IF kw THEN Some(Arg("kwargs", Annotation(pattern, 1)))
                     ELSE None]

-----------------------------------------------------------------------------
(* format_arguments                                                        *)

\* name, or name: annotation
Annotated(a) ==
    IF a.annotation # None
    THEN a.arg \o ": " \o unparse(a.annotation[1])
    ELSE a.arg

\* Defaults aligned to the start of all_pos instead of its end.
DefaultIdxFromStart(i, num_pos, num_defaults) ==
    IF i < num_defaults THEN i ELSE -1

\* default_idx of the parameter at index i (from 0) of all_pos
DefaultIdx(i, num_pos, num_defaults) == i - (num_pos - num_defaults)

\* The "/" put after the first positional-or-keyword parameter instead.
AfterPosOnlyLate(i, num_posonly) == i = num_posonly /\ num_posonly > 0

\* Whether "/" follows the parameter at index i (from 0) of all_pos
AfterPosOnly(i, num_posonly) == i = num_posonly - 1 /\ num_posonly > 0

\* The first loop, from index i (from 0) on: the positional parameters.
RECURSIVE PositionalParts(_, _)
PositionalParts(n, i) ==
    LET num_posonly == Len(n.posonlyargs)
        all_pos == n.posonlyargs \o n.args
        num_defaults == Len(n.defaults)
        num_pos == Len(all_pos)
    IN  IF i >= num_pos THEN <<>>
        ELSE LET a == all_pos[i + 1]
                 default_idx == DefaultIdx(i, num_pos, num_defaults)
                 s == IF default_idx >= 0
                      THEN Annotated(a) \o " = "
                           \o unparse(n.defaults[default_idx + 1])
                      ELSE Annotated(a)
             IN  <<s>>
                 \o (IF AfterPosOnly(i, num_posonly) THEN <<"/">> ELSE <<>>)
                 \o PositionalParts(n, i + 1)

\* The bare "*" added whenever there are keyword-only parameters, also
\* after *name.
VarargPartsBoth(n) ==
    (IF n.vararg # None THEN <<"*" \o Annotated(n.vararg[1])>> ELSE <<>>)
    \o (IF Len(n.kwonlyargs) > 0 THEN <<"*">> ELSE <<>>)

\* *name, or the bare "*" before keyword-only parameters
VarargParts(n) ==
    IF n.vararg # None THEN <<"*" \o Annotated(n.vararg[1])>>
    ELSE IF Len(n.kwonlyargs) > 0 THEN <<"*">>
    ELSE <<>>

\* The second loop, from index i (from 0) on: the keyword-only parameters.
RECURSIVE KwOnlyParts(_, _)
KwOnlyParts(n, i) ==
    IF i >= Len(n.kwonlyargs) THEN <<>>
    ELSE LET a == n.kwonlyargs[i + 1]
             default == n.kw_defaults[i + 1]
             s == IF default # None
                  THEN Annotated(a) \o " = " \o unparse(default[1])
                  ELSE Annotated(a)
         IN  <<s>> \o KwOnlyParts(n, i + 1)

KwargParts(n) ==
    IF n.kwarg # None THEN <<"**" \o Annotated(n.kwarg[1])>> ELSE <<>>

\* The list parts of format_arguments when it returns.
ArgumentParts(n) ==
    PositionalParts(n, 0) \o VarargParts(n) \o KwOnlyParts(n, 0)
    \o KwargParts(n)

format_arguments(n) == Join(", ", ArgumentParts(n))

-----------------------------------------------------------------------------
(* The signature reconstructor on its own: every parameter list within the *)
(* bounds, rendered.                                                       *)

KwDefaults ==
    UNION {[1..k -> {None, Some(Constant(0))}] : k \in 0..MaxKwOnly}

InitArgs ==
    /\ pc = "start"
    /\ \E p \in 0..MaxPosOnly, q \in 0..MaxArgs, kwd \in KwDefaults,
          va \in BOOLEAN, kw \in BOOLEAN, pattern \in AnnotationPatterns :
          \E d \in 0..(p + q) :
              node = Some(Arguments(p, q, d, kwd, va, kw, pattern))
    /\ parts = <<>> /\ sig = None
    /\ IdleDoc /\ IdleModule /\ IdlePackage

FormatArguments ==
    /\ pc = "start"
    /\ parts' = ArgumentParts(node[1])
    /\ sig' = Some(format_arguments(node[1]))
    /\ pc' = "rendered"
    /\ UNCHANGED <<doc, indent, block, again, node, tree,
                   include_docstrings, include_private, out,
                   path, py_files, sections>>

NextArgs == FormatArguments

SpecArgs == InitArgs /\ [][NextArgs]_vars

-----------------------------------------------------------------------------
(* Claims about the signature reconstructor, checked under SpecArgs.       *)

\* The index in parts (from 1) of the fragment of the positional parameter
\* at index i (from 0) of the combined positional sequence: the "/" counts
\* once the positional-only parameters are passed.
PositionalFragment(n, i) ==
    IF Len(n.posonlyargs) > 0 /\ i >= Len(n.posonlyargs) THEN i + 2 ELSE i + 1

\* s holds sub somewhere.
Contains(s, sub) ==
    \E i \in 1..(Len(s) - Len(sub) + 1) : SubSeq(s, i, i + Len(sub) - 1) = sub

\* C1: with P positional-only and Q positional-or-keyword parameters and D
\* defaults, the parameter at index i of the combined positional sequence is
\* rendered with a default iff i >= (P + Q) - D, and the default is
\* defaults[i - ((P + Q) - D)]: the last D positional parameters carry the
\* defaults, in order.
C1_DefaultsAlignToEnd ==
    pc = "rendered" =>
        LET n == node[1]
            all_pos == n.posonlyargs \o n.args
            total == Len(all_pos)
            d == Len(n.defaults)
        IN  \A i \in 0..(total - 1) :
                LET frag == parts[PositionalFragment(n, i)]
                    plain == Annotated(all_pos[i + 1])
                IN  /\ Contains(frag, " = ") <=> i >= total - d
                    /\ i >= total - d =>
                           frag = plain \o " = "
                                  \o unparse(n.defaults[i - (total - d) + 1])
                    /\ i < total - d => frag = plain

\* A list with a positional-only and a positional-or-keyword parameter and
\* three defaults: the first parameter has none, a default falls on a
\* positional-only parameter.
C1_Witness ==
    /\ pc = "rendered"
    /\ Len(node[1].posonlyargs) = 2
    /\ Len(node[1].args) = 2
    /\ Len(node[1].defaults) = 3
    /\ node[1].vararg = None /\ node[1].kwarg = None
    /\ Len(node[1].kwonlyargs) = 0
    /\ sig = Some("p1, p2 = 10, /, a1 = 11, a2 = 12")

\* The number of fragments of parts equal to x.
Count(xs, x) == Cardinality({i \in 1..Len(xs) : xs[i] = x})

\* C5: a bare "/" fragment is in the parameter list iff there is a
\* positional-only parameter; then it is there once, right after the
\* fragment of the last positional-only parameter, and every fragment of a
\* positional-or-keyword, variadic or keyword-only parameter comes after it.
C5_SlashAfterPosOnly ==
    pc = "rendered" =>
        LET n == node[1]
            p == Len(n.posonlyargs)
        IN  /\ Count(parts, "/") > 0 <=> p > 0
            /\ p > 0 =>
                   /\ Count(parts, "/") = 1
                   /\ parts[p + 1] = "/"
                   /\ \A i \in 1..p :
                          StartsWith(parts[i], n.posonlyargs[i].arg)
                   /\ \A j \in 1..p :
                          /\ \A i \in 1..Len(n.args) :
                                 ~StartsWith(parts[j], n.args[i].arg)
                          /\ \A i \in 1..Len(n.kwonlyargs) :
                                 ~StartsWith(parts[j], n.kwonlyargs[i].arg)
                          /\ ~StartsWith(parts[j], "*")
                   /\ Len(parts) >= p + 1 + Len(n.args) + Len(n.kwonlyargs)

\* Positional-only and positional-or-keyword parameters, *args and a
\* keyword-only parameter, rendered: the "/" is the third fragment.
C5_Witness ==
    /\ pc = "rendered"
    /\ Len(node[1].posonlyargs) = 2
    /\ Len(node[1].args) = 1
    /\ Len(node[1].kwonlyargs) = 1
    /\ node[1].vararg # None
    /\ parts[3] = "/"
    /\ parts[4] = "a1"

\* C6: a bare "*" fragment is in the parameter list iff there is no
\* variadic-positional parameter and there is a keyword-only parameter; it,
\* or *name, comes after all positional fragments and before all
\* keyword-only fragments, and **name, if present, is the last fragment.
C6_StarBeforeKwOnly ==
    pc = "rendered" =>
        LET n == node[1]
            p == Len(n.posonlyargs)
            k == Len(n.kwonlyargs)
            npos == p + Len(n.args) + (IF p > 0 THEN 1 ELSE 0)
            star == IF n.vararg # None \/ k > 0 THEN 1 ELSE 0
            dstar == IF n.kwarg # None THEN 1 ELSE 0
        IN  /\ Count(parts, "*") > 0 <=> (n.vararg = None /\ k > 0)
            /\ Count(parts, "*") <= 1
            /\ Len(parts) = npos + star + k + dstar
            /\ (n.vararg = None /\ k > 0) => parts[npos + 1] = "*"
            /\ n.vararg # None =>
                   /\ parts[npos + 1] = "*" \o Annotated(n.vararg[1])
                   /\ \A j \in 1..Len(parts) :
                          (j # npos + 1 /\ StartsWith(parts[j], "*"))
                              => StartsWith(parts[j], "**")
            /\ \A i \in 1..k :
                   StartsWith(parts[npos + star + i], n.kwonlyargs[i].arg)
            /\ n.kwarg # None =>
                   parts[Len(parts)] = "**" \o Annotated(n.kwarg[1])
            /\ \A j \in 1..Len(parts) :
                   StartsWith(parts[j], "**") => (n.kwarg # None /\ j = Len(parts))

\* Keyword-only parameters without *args, and **kwargs, rendered: the bare
\* "*" follows the positional fragments.
C6_Witness ==
    /\ pc = "rendered"
    /\ node[1].vararg = None
    /\ Len(node[1].kwonlyargs) = 2
    /\ node[1].kwarg # None
    /\ sig = Some("p1, /, a1 = 10, *, k1, k2 = 0, **kwargs")

-----------------------------------------------------------------------------
(* ast: statements.  A node carries what the parser's span lookup          *)
(* (ast.get_source_segment) returns for it: its source text, or None.      *)

\* A statement stub_module and stub_class ignore.
Pass == [type |-> "Pass"]

Return == [type |-> "Return"]

\* A bare string-literal expression statement
Doc(v) == [type |-> "Expr", value |-> Str(v), segment |-> Some(QQQ \o v \o QQQ)]

Import(name) == [type |-> "Import", name |-> name, segment |-> None]

Assign(target, v, segment) ==
    [type |-> "Assign", target |-> target, value |-> Constant(v),
     segment |-> segment]

AnnAssign(target, annotation, segment) ==
    [type |-> "AnnAssign", target |-> target, annotation |-> Name(annotation),
     segment |-> segment]

\* type is FunctionDef or AsyncFunctionDef; lineno and end_lineno are set
\* by Numbered.
FunctionDef(type, name, decorator_list, args, returns, body) ==
    [type |-> type, name |-> name, decorator_list |-> decorator_list,
     args |-> args, returns |-> returns, body |-> body,
     lineno |-> 0, end_lineno |-> 0]

ClassDef(name, decorator_list, bases, keywords, body) ==
    [type |-> "ClassDef", name |-> name, decorator_list |-> decorator_list,
     bases |-> bases, keywords |-> keywords, body |-> body,
     lineno |-> 0, end_lineno |-> 0]

IsFunction(n) == n.type \in {"FunctionDef", "AsyncFunctionDef"}

IsClass(n) == n.type = "ClassDef"

\* isinstance(n, ast.Expr) and isinstance(n.value, ast.Constant)
\* and isinstance(n.value.value, str)
IsStrExpr(n) ==
    n.type = "Expr" /\ n.value.type = "Constant" /\ n.value.kind = "str"

\* The source lines a statement takes: one, for a string literal the lines
\* of its text, for a def or class its decorators, its header and its body.
RECURSIVE SourceLines(_)
SourceLines(n) ==
    IF IsFunction(n) \/ IsClass(n)
    THEN LET RECURSIVE Sum(_)
             Sum(body) == IF Len(body) = 0 THEN 0
                          ELSE SourceLines(body[1]) + Sum(Tail(body))
         IN  Len(n.decorator_list) + 1 + Sum(n.body)
    ELSE IF IsStrExpr(n) THEN Len(Split(n.value.value))
    ELSE 1

\* The parser's line numbers: body, laid out from line first on, one
\* statement after the other.
RECURSIVE Numbered(_, _)
Numbered(body, first) ==
    IF Len(body) = 0 THEN <<>>
    ELSE LET n == body[1]
             numbered ==
                 IF IsFunction(n) \/ IsClass(n)
                 THEN [n EXCEPT
                          !.lineno = first + Len(n.decorator_list),
                          !.end_lineno = first + SourceLines(n) - 1,
                          !.body = Numbered(n.body,
                                            first + Len(n.decorator_list) + 1)]
                 ELSE n
         IN  <<numbered>> \o Numbered(Tail(body), first + SourceLines(n))

-----------------------------------------------------------------------------
(* get_docstring, stub_function, stub_class, _is_private, stub_module      *)

get_docstring(body) ==
    IF Len(body) > 0 /\ IsStrExpr(body[1])
    THEN Some(body[1].value.value)
    ELSE None

\* if x: for an optional string x
Truthy(x) == x # None /\ x[1] # ""

\* The lines every def and class stub starts with: the location comment
\* and the decorators.
LocationAndDecorators(n, source_file, ind) ==
    <<ind \o "# " \o source_file \o ":" \o ToString(n.lineno)
          \o "-" \o ToString(n.end_lineno)>>
    \o [i \in 1..Len(n.decorator_list) |->
           ind \o "@" \o unparse(n.decorator_list[i])]

\* The placeholder left out after a docstring.
FunctionBodyDocOrPlaceholder(n, body_indent, incl_docstrings) ==
    LET d == IF incl_docstrings THEN get_docstring(n.body) ELSE None
    IN  IF Truthy(d)
        THEN <<RStrip(_format_docstring(d[1], body_indent))>>
        ELSE <<body_indent \o "...">>

\* The docstring and the placeholder of stub_function
FunctionBody(n, body_indent, incl_docstrings) ==
    LET d == IF incl_docstrings THEN get_docstring(n.body) ELSE None
    IN  (IF Truthy(d)
         THEN <<RStrip(_format_docstring(d[1], body_indent))>>
         ELSE <<>>)
        \o <<body_indent \o "...">>

stub_function(n, source_file, ind, incl_docstrings) ==
    LET async_prefix == IF n.type = "AsyncFunctionDef" THEN "async " ELSE ""
        sg == format_arguments(n.args)
        ret == IF n.returns # None THEN " -> " \o unparse(n.returns[1]) ELSE ""
        body_indent == ind \o "    "
    IN  Join(NL,
             LocationAndDecorators(n, source_file, ind)
             \o <<ind \o async_prefix \o "def " \o n.name
                      \o "(" \o sg \o ")" \o ret \o ":">>
             \o FunctionBody(n, body_indent, incl_docstrings))

\* A name is private whenever it starts with an underscore, dunder or not.
IsPrivateDunderToo(name) == StartsWith(name, "_")

_is_private(name) ==
    StartsWith(name, "_")
    /\ ~(StartsWith(name, "__") /\ EndsWith(name, "__"))

\* segment if segment else ast.unparse(n)
SegmentOrUnparse(n) ==
    IF Truthy(n.segment) THEN n.segment[1] ELSE unparse(n)

\* The class line of stub_class
ClassLine(n, ind) ==
    LET bases == [i \in 1..Len(n.bases) |-> unparse(n.bases[i])]
                 \o [i \in 1..Len(n.keywords) |->
                        IF n.keywords[i].arg # None
                        THEN n.keywords[i].arg[1] \o "="
                             \o unparse(n.keywords[i].value)
                        ELSE "**" \o unparse(n.keywords[i].value)]
        base_str == IF Len(bases) > 0
                    THEN "(" \o Join(", ", bases) \o ")"
                    ELSE ""
    IN  ind \o "class " \o n.name \o base_str \o ":"

\* A placeholder whether or not the class has content.
ClassPlaceholderAlways(body_indent, has_content) == <<body_indent \o "...">>

\* if not has_content: lines.append(f"{body_indent}...")
ClassPlaceholder(body_indent, has_content) ==
    IF ~has_content THEN <<body_indent \o "...">> ELSE <<>>

RECURSIVE stub_class(_, _, _, _, _)
RECURSIVE ClassChildren(_, _, _, _, _, _)

\* The loop of stub_class over node.body, from the child at index i (from
\* 1) on: the lines it appends and whether it sets has_content.
ClassChildren(n, source_file, body_indent, incl_docstrings, incl_private, i) ==
    IF i > Len(n.body) THEN [lines |-> <<>>, has_content |-> FALSE]
    ELSE LET child == n.body[i]
             skip == [lines |-> <<>>, has_content |-> FALSE]
             this ==
                 IF IsStrExpr(child) /\ i = 1 THEN skip
                 ELSE IF child.type \in {"AnnAssign", "Assign"}
                 THEN [lines |-> <<body_indent \o SegmentOrUnparse(child)>>,
                       has_content |-> TRUE]
                 ELSE IF IsFunction(child)
                 THEN IF ~incl_private /\ _is_private(child.name) THEN skip
                      ELSE [lines |-> <<"", stub_function(child, source_file,
                                            body_indent, incl_docstrings)>>,
                            has_content |-> TRUE]
                 ELSE IF IsClass(child)
                 THEN IF ~incl_private /\ _is_private(child.name) THEN skip
                      ELSE [lines |-> <<"", stub_class(child, source_file,
                                            body_indent, incl_docstrings,
                                            incl_private)>>,
                            has_content |-> TRUE]
                 ELSE skip
             rest == ClassChildren(n, source_file, body_indent,
                                   incl_docstrings, incl_private, i + 1)
         IN  [lines |-> this.lines \o rest.lines,
              has_content |-> this.has_content \/ rest.has_content]

\* stub_class without its source parameter: the source segments are on the
\* nodes.
stub_class(n, source_file, ind, incl_docstrings, incl_private) ==
    LET body_indent == ind \o "    "
        d == IF incl_docstrings THEN get_docstring(n.body) ELSE None
        doclines == IF Truthy(d)
                    THEN <<RStrip(_format_docstring(d[1], body_indent))>>
                    ELSE <<>>
        children == ClassChildren(n, source_file, body_indent,
                                  incl_docstrings, incl_private, 1)
        has_content == Truthy(d) \/ children.has_content
    IN  Join(NL,
             LocationAndDecorators(n, source_file, ind)
             \o <<ClassLine(n, ind)>>
             \o doclines
             \o children.lines
             \o ClassPlaceholder(body_indent, has_content))

\* The loop of stub_module over the module's statements, from the one at
\* index i (from 1) on: the list parts.
RECURSIVE ModuleParts(_, _, _, _, _)
ModuleParts(t, source_file, incl_docstrings, incl_private, i) ==
    IF i > Len(t) THEN <<>>
    ELSE LET n == t[i]
             this ==
                 IF IsStrExpr(n) /\ i = 1
                 THEN IF incl_docstrings
                      THEN IF Truthy(n.segment) THEN <<n.segment[1]>>
                           ELSE <<QQQ \o n.value.value \o QQQ>>
                      ELSE <<>>
                 ELSE IF n.type = "Import" THEN <<SegmentOrUnparse(n)>>
                 ELSE IF n.type \in {"Assign", "AnnAssign"}
                 THEN <<SegmentOrUnparse(n)>>
                 ELSE IF IsFunction(n)
                 THEN IF ~incl_private /\ _is_private(n.name) THEN <<>>
                      ELSE <<stub_function(n, source_file, "", incl_docstrings)>>
                 ELSE IF IsClass(n)
                 THEN IF ~incl_private /\ _is_private(n.name) THEN <<>>
                      ELSE <<stub_class(n, source_file, "", incl_docstrings,
                                        incl_private)>>
                 ELSE <<>>
         IN  this \o ModuleParts(t, source_file, incl_docstrings,
                                 incl_private, i + 1)

\* stub_module of a parsed source
stub_module(t, source_file, incl_docstrings, incl_private) ==
    Join("\n\n", ModuleParts(t, source_file, incl_docstrings, incl_private, 1))

-----------------------------------------------------------------------------
(* The module projector on one module: a top-level def or class with a     *)
(* body of at most MaxBody statements, alone in the module or among other  *)
(* top-level statements, under every setting of the two flags.             *)

\* The sequences of 1 to n elements of S.
SeqsUpTo(S, n) == UNION {[1..k -> S] : k \in 1..n}

NoArguments == Arguments(0, 0, 0, <<>>, FALSE, FALSE, "none")

\* def name(): with the given body
PlainDef(name, body) ==
    FunctionDef("FunctionDef", name, <<>>, NoArguments, None, body)

PlainClass(name, body) == ClassDef(name, <<>>, <<>>, <<>>, body)

DocValues == {"", "Doc.", "One.\n\nTwo."}

Docs == {Doc(v) : v \in DocValues}

AssignX == Assign("x", 1, Some("x=1"))

AnnAssignY == AnnAssign("y", "int", None)

\* The statements of a top-level function's body.
FunctionStatements ==
    Docs \cup {Pass, AssignX,
               PlainDef("inner", <<Return>>),
               PlainClass("Local", <<AssignX>>)}

MemberFunctions ==
    {PlainDef(name, <<Doc("Doc."), Return>>) :
        name \in {"_helper", "__init__", "helper"}}
    \cup {PlainDef("__eq__", <<Pass>>)}

\* Classes nested one and two deep.
InnerClasses ==
    {PlainClass("Shown", <<Pass>>),
     PlainClass("Shown", <<Doc("")>>),
     PlainClass("Shown", <<PlainDef("_helper", <<Pass>>)>>),
     PlainClass("Shown", <<Doc("Doc."), PlainClass("_Deep", <<AssignX>>)>>),
     PlainClass("Shown", <<PlainClass("Deep", <<PlainDef("_helper", <<Pass>>)>>)>>),
     PlainClass("_Hidden", <<AssignX>>),
     PlainClass("_Hidden", <<PlainClass("Deep", <<PlainDef("helper", <<Pass>>)>>)>>)}

\* The statements of a top-level class's body.
ClassStatements ==
    {Doc(""), Doc("Doc."), Pass, AssignX, AnnAssignY}
    \cup MemberFunctions \cup InnerClasses

\* The top-level defs and classes, plain (no decorators, parameters,
\* bases) or rich.
TopFunctions(style) ==
    {FunctionDef(IF style = "rich" THEN "AsyncFunctionDef" ELSE "FunctionDef",
                 name,
                 IF style = "rich" THEN <<Name("cache")>> ELSE <<>>,
                 IF style = "rich"
                 THEN Arguments(0, 2, 1, <<None>>, FALSE, FALSE, "odd")
                 ELSE NoArguments,
                 IF style = "rich" THEN Some(Name("int")) ELSE None,
                 body) :
        name \in {"_helper", "__init__", "helper"},
        body \in SeqsUpTo(FunctionStatements, MaxBody)}

TopClasses(style) ==
    {ClassDef(name,
              IF style = "rich" THEN <<Name("final")>> ELSE <<>>,
              IF style = "rich" THEN <<Name("Base")>> ELSE <<>>,
              IF style = "rich"
              THEN <<[arg |-> Some("metaclass"), value |-> Name("Meta")],
                     [arg |-> None, value |-> Name("options")]>>
              ELSE <<>>,
              body) :
        name \in {"_Private", "Public"},
        body \in SeqsUpTo(ClassStatements, MaxBody)}

\* The parsed modules.
Modules ==
    {Numbered(<<n>>, 1) : n \in TopFunctions("plain") \cup TopClasses("plain")}
    \cup {Numbered(<<Doc("Module."), Import("os"), AssignX, Pass, n, AnnAssignY>>, 1) :
             n \in TopFunctions("rich") \cup TopClasses("rich")}

\* The display label of the module's file.
SourceFile == "m.py"

InitModule ==
    /\ pc = "start"
    /\ tree \in Modules
    /\ include_docstrings \in BOOLEAN
    /\ include_private \in BOOLEAN
    /\ out = None
    /\ IdleDoc /\ IdleArgs /\ IdlePackage

StubModule ==
    /\ pc = "start"
    /\ out' = Some(stub_module(tree, SourceFile, include_docstrings,
                               include_private))
    /\ pc' = "stubbed"
    /\ UNCHANGED <<doc, indent, block, again, node, parts, sig, tree,
                   include_docstrings, include_private,
                   path, py_files, sections>>

NextModule == StubModule

SpecModule == InitModule /\ [][NextModule]_vars

-----------------------------------------------------------------------------
(* _sort_key and stub_package                                              *)

\* ord(c), for the characters of the model's file names
Ord(c) ==
    CASE c = "." -> 46
      [] c = "Z" -> 90
      [] c = "_" -> 95
      [] c = "a" -> 97
      [] c = "b" -> 98
      [] c = "c" -> 99
      [] c = "i" -> 105
      [] c = "n" -> 110
      [] c = "p" -> 112
      [] c = "s" -> 115
      [] c = "t" -> 116
      [] c = "u" -> 117
      [] c = "x" -> 120
      [] c = "y" -> 121

\* A str as its code points, which is what < on str compares.
Codes(s) == [i \in 1..Len(s) |-> Ord(Char(s, i))]

\* a < b for two strs, given as their code points
CodesLess(a, b) ==
    \E i \in 1..(Len(a) + 1) :
        /\ i <= Len(b)
        /\ \A j \in 1..(i - 1) : a[j] = b[j]
        /\ i <= Len(a) => a[i] < b[i]

\* k1 < k2 for two tuples of strs
KeyLess(k1, k2) ==
    \E i \in 1..(Len(k1) + 1) :
        /\ i <= Len(k2)
        /\ \A j \in 1..(i - 1) : k1[j] = k2[j]
        /\ i <= Len(k1) => CodesLess(k1[i], k2[i])

\* The key without the sentinel: the parts as they are.
SortKeyPlain(rel) == [i \in 1..Len(rel) |-> Codes(rel[i])]

\* _sort_key(path, root), rel being path.relative_to(root).parts: a tuple
\* of strs, each as its code points
_sort_key(rel) ==
    [i \in 1..Len(rel) |->
        IF i = Len(rel) /\ rel[i] = "__init__.py" THEN <<0>> ELSE Codes(rel[i])]

\* sorted(fs, key=_sort_key): the keys of different files differ.
RECURSIVE Sorted(_)
Sorted(fs) ==
    IF fs = {} THEN <<>>
    ELSE LET first == CHOOSE f \in fs :
                          \A g \in fs \ {f} :
                              KeyLess(_sort_key(f.rel), _sort_key(g.rel))
         IN  <<first>> \o Sorted(fs \ {first})

\* The loop of stub_package over py_files: the list sections.
RECURSIVE Sections(_, _, _, _)
Sections(fs, parent, incl_docstrings, incl_private) ==
    IF Len(fs) = 0 THEN <<>>
    ELSE LET py_file == fs[1]
             rel == Join("/", <<parent>> \o py_file.rel)
             header == "# === " \o rel \o " ==="
             body == stub_module(py_file.tree, rel, incl_docstrings,
                                 incl_private)
         IN  (IF HasText(py_file.source) /\ HasText(body)
              THEN <<header \o "\n\n" \o body>>
              ELSE <<>>)
             \o Sections(Tail(fs), parent, incl_docstrings, incl_private)

-----------------------------------------------------------------------------
(* The tree walker: a file, or a package directory with at most MaxFiles   *)
(* *.py files in it and in its sub-directories.                            *)

\* What a file holds: its text and what ast.parse makes of it.
Sources ==
    {[source |-> "", tree |-> <<>>],
     [source |-> "pass\n", tree |-> <<Pass>>],
     [source |-> "x=1\n", tree |-> <<AssignX>>]}

\* The paths of the *.py files a package may hold, relative to it.
RelPaths ==
    {<<"__init__.py">>, <<"a.py">>, <<"b.py">>, <<"Z.py">>,
     <<"a", "x.py">>,
     <<"sub", "__init__.py">>, <<"sub", "c.py">>,
     <<"Zub", "x.py">>}

PackageName == "pkg"

\* The sets of at most MaxFiles files, each with some content.
Packages ==
    UNION {[rels -> Sources] :
              rels \in {r \in SUBSET RelPaths : Cardinality(r) <= MaxFiles}}

\* path.rglob("*.py") of a package: its files, in no order.
Rglob(package) ==
    {[rel |-> r, source |-> package[r].source, tree |-> package[r].tree] :
        r \in DOMAIN package}

InitPackage ==
    /\ pc = "start"
    /\ \/ \E package \in Packages :
              path = [is_file |-> FALSE, name |-> PackageName,
                      files |-> Rglob(package)]
       \/ \E src \in Sources \cup {[source |-> "def f():\n    pass\n",
                                    tree |-> Numbered(<<PlainDef("f", <<Pass>>)>>, 1)]} :
              path = [is_file |-> TRUE, name |-> "m.py",
                      source |-> src.source, tree |-> src.tree]
    /\ include_docstrings \in BOOLEAN
    /\ include_private = TRUE
    /\ py_files = <<>> /\ sections = <<>>
    /\ tree = <<>> /\ out = None
    /\ IdleDoc /\ IdleArgs

\* stub_package of a file
StubFile ==
    /\ pc = "start"
    /\ path.is_file
    /\ out' = Some(stub_module(path.tree, path.name, include_docstrings,
                               include_private))
    /\ pc' = "stubbed"
    /\ UNCHANGED <<doc, indent, block, again, node, parts, sig, tree,
                   include_docstrings, include_private,
                   path, py_files, sections>>

\* stub_package of a directory
StubDirectory ==
    /\ pc = "start"
    /\ ~path.is_file
    /\ py_files' = Sorted(path.files)
    /\ sections' = Sections(py_files', path.name, include_docstrings,
                            include_private)
    /\ out' = Some(Join("\n\n", sections'))
    /\ pc' = "walked"
    /\ UNCHANGED <<doc, indent, block, again, node, parts, sig, tree,
                   include_docstrings, include_private, path>>

NextPackage == StubFile \/ StubDirectory

SpecPackage == InitPackage /\ [][NextPackage]_vars

-----------------------------------------------------------------------------
(* Claims about the tree walker, checked under SpecPackage.                *)

IsInit(rel) == rel[Len(rel)] = "__init__.py"

\* rel is in the directory dir or below it.
Under(rel, dir) == Len(rel) > Len(dir) /\ SubSeq(rel, 1, Len(dir)) = dir

StrLess(a, b) == CodesLess(Codes(a), Codes(b))

\* p before q, part by part, each part compared as a string.
PartsLess(p, q) ==
    \E i \in 1..(Len(p) + 1) :
        /\ i <= Len(q)
        /\ \A j \in 1..(i - 1) : p[j] = q[j]
        /\ i <= Len(p) => StrLess(p[i], q[i])

\* The order of the claim: __init__.py before the other files of its
\* directory, and otherwise the paths compared part by part, each part as
\* a string.
Before(p, q) ==
    IF IsInit(p) /\ Under(q, SubSeq(p, 1, Len(p) - 1)) THEN TRUE
    ELSE IF IsInit(q) /\ Under(p, SubSeq(q, 1, Len(q) - 1)) THEN FALSE
    ELSE PartsLess(p, q)

SectionHeader(rel) ==
    "# === " \o PackageName \o "/" \o Join("/", rel) \o " ===" \o NL

\* The index in sections of the file's section, 0 when it has none.
SectionAt(rel) ==
    LET at == {i \in 1..Len(sections) : StartsWith(sections[i], SectionHeader(rel))}
    IN  IF at = {} THEN 0 ELSE CHOOSE i \in at : TRUE

ExampleFiles ==
    {<<"__init__.py">>, <<"b.py">>, <<"a.py">>,
     <<"sub", "__init__.py">>, <<"sub", "c.py">>}

\* C4: the sections of a package come in an order where __init__.py
\* precedes every other file of its directory (and of the directories
\* below), and the files are otherwise ordered lexicographically by
\* relative path, compared part by part; the files pkg/__init__.py,
\* pkg/b.py, pkg/a.py, pkg/sub/__init__.py, pkg/sub/c.py come in the order
\* pkg/__init__.py, pkg/a.py, pkg/b.py, pkg/sub/__init__.py, pkg/sub/c.py.
C4_DirectoryOrdering ==
    pc = "walked" =>
        LET emitted == {f.rel : f \in {g \in path.files : SectionAt(g.rel) > 0}}
        IN  /\ \A p, q \in emitted :
                   p # q => (SectionAt(p) < SectionAt(q) <=> Before(p, q))
            /\ Len(sections) = Cardinality(emitted)
            /\ \A f \in path.files :
                   (HasText(f.source) /\ f.tree # <<Pass>>) => f.rel \in emitted
            /\ emitted = ExampleFiles =>
                   /\ SectionAt(<<"__init__.py">>) = 1
                   /\ SectionAt(<<"a.py">>) = 2
                   /\ SectionAt(<<"b.py">>) = 3
                   /\ SectionAt(<<"sub", "__init__.py">>) = 4
                   /\ SectionAt(<<"sub", "c.py">>) = 5

\* The five files of the example, each with content, have been walked.
C4_Witness ==
    /\ pc = "walked"
    /\ {f.rel : f \in path.files} = ExampleFiles
    /\ Len(sections) = 5
    /\ sections[1] = "# === pkg/__init__.py ===\n\nx=1"
    /\ sections[5] = "# === pkg/sub/c.py ===\n\nx=1"

-----------------------------------------------------------------------------
(* Claims about the declaration renderers, checked under SpecModule.  A    *)
(* declaration is found in the output by its location comment: line       *)
(* numbers are unique.                                                     *)

RECURSIVE Indent(_)
Indent(k) == IF k = 0 THEN "" ELSE "    " \o Indent(k - 1)

\* A name is private iff it starts with an underscore and is not a dunder.
Private(name) ==
    /\ Len(name) >= 1 /\ Char(name, 1) = "_"
    /\ ~(/\ Len(name) >= 2
         /\ SubSeq(name, 1, 2) = "__"
         /\ SubSeq(name, Len(name) - 1, Len(name)) = "__")

Kept(n) == include_private \/ ~Private(n.name)

\* The defs and classes of a body at nesting depth, each with the kind of
\* its container (module, class or function) and whether every container
\* up to the module is a class that is kept.
RECURSIVE Declarations(_, _, _, _)
Declarations(body, depth, where, reached) ==
    UNION {IF IsFunction(body[i]) \/ IsClass(body[i])
           THEN {[n |-> body[i], depth |-> depth, where |-> where,
                  reached |-> reached]}
                \cup Declarations(body[i].body, depth + 1,
                                  IF IsClass(body[i]) THEN "class"
                                  ELSE "function",
                                  reached /\ IsClass(body[i]) /\ Kept(body[i]))
           ELSE {} : i \in 1..Len(body)}

AllDeclarations == Declarations(tree, 0, "module", TRUE)

LocationLine(d) ==
    Indent(d.depth) \o "# " \o SourceFile \o ":" \o ToString(d.n.lineno)
    \o "-" \o ToString(d.n.end_lineno)

\* The index in lines of the declaration's location comment, 0 when it is
\* not there.
LocationAt(lines, d) ==
    LET location == LocationLine(d)
        at == {i \in 1..Len(lines) : lines[i] = location}
    IN  IF at = {} THEN 0 ELSE CHOOSE i \in at : TRUE

HeaderStart(d) ==
    Indent(d.depth)
    \o (IF IsClass(d.n) THEN "class "
        ELSE IF d.n.type = "AsyncFunctionDef" THEN "async def "
        ELSE "def ")
    \o d.n.name

\* The line at index i, "" past the end.
LineAt(lines, i) == IF i >= 1 /\ i <= Len(lines) THEN lines[i] ELSE ""

\* The index in lines of the header line of the declaration when it is
\* rendered (its location comment, its decorators and its header are
\* there), 0 when it is not.
HeaderAt(lines, d) ==
    LET at == LocationAt(lines, d)
        h == at + Len(d.n.decorator_list) + 1
    IN  IF /\ at > 0
           /\ StartsWith(LineAt(lines, h), HeaderStart(d))
           /\ EndsWith(LineAt(lines, h), ":")
        THEN h
        ELSE 0

\* The lines of the docstring block for text v at the indent.
DocBlock(v, ind) == Split(RStrip(_format_docstring(v, ind)))

\* C2: the stub of a function or async function is the location comment,
\* the decorators, the header line, an optional docstring block and one
\* placeholder one indent level deeper, its last line: no line at the body's
\* indentation follows, and no def or class of a function's body is
\* rendered.
C2_FunctionBodyElided ==
    pc = "stubbed" =>
        LET lines == Split(out[1])
        IN  \A d \in AllDeclarations :
                LET h == HeaderAt(lines, d)
                    body_indent == Indent(d.depth + 1)
                    hasdoc == StartsWith(LineAt(lines, h + 1), body_indent \o QQQ)
                    text == get_docstring(d.n.body)
                    m == IF hasdoc /\ text # None
                         THEN Len(DocBlock(text[1], body_indent))
                         ELSE 0
                IN  /\ d.where = "function" => h = 0
                    /\ (IsFunction(d.n) /\ h > 0) =>
                           /\ \A j \in 1..Len(d.n.decorator_list) :
                                  StartsWith(lines[h - j], Indent(d.depth) \o "@")
                           /\ hasdoc =>
                                  /\ text # None
                                  /\ SubSeq(lines, h + 1, h + m)
                                         = DocBlock(text[1], body_indent)
                           /\ LineAt(lines, h + m + 1) = body_indent \o "..."
                           /\ ~StartsWith(LineAt(lines, h + m + 2), body_indent)

\* A decorated async def whose body is a multi-line docstring and a nested
\* def has been stubbed, docstring included.
C2_Witness ==
    /\ pc = "stubbed"
    /\ include_docstrings
    /\ Len(tree) = 6
    /\ tree[5].type = "AsyncFunctionDef"
    /\ tree[5].name = "helper"
    /\ Len(tree[5].body) = 2
    /\ tree[5].body[1] = Doc("One.\n\nTwo.")
    /\ IsFunction(tree[5].body[2])
    /\ SubSeq(Split(out[1]), 7, 14)
           = <<"# m.py:6-11", "@cache",
               "async def helper(a1: int, a2 = 10, *, k1: int) -> int:",
               "    \"\"\"One.", "", "    Two.", "    \"\"\"", "    ...">>

\* C3: a def or class at module top level or in the body of a kept class,
\* at any depth, is rendered iff private members are included or its name
\* is not private.
C3_PrivateFiltering ==
    pc = "stubbed" =>
        LET lines == Split(out[1])
        IN  \A d \in AllDeclarations :
                d.reached =>
                    (HeaderAt(lines, d) > 0
                         <=> (include_private \/ ~Private(d.n.name)))

\* Without private members, a class with the members _helper and __init__
\* has been stubbed: __init__ is there and _helper is not.
C3_Witness ==
    /\ pc = "stubbed"
    /\ ~include_private
    /\ Len(tree) = 1
    /\ IsClass(tree[1]) /\ tree[1].name = "Public"
    /\ Len(tree[1].body) = 2
    /\ IsFunction(tree[1].body[1]) /\ tree[1].body[1].name = "_helper"
    /\ IsFunction(tree[1].body[2]) /\ tree[1].body[2].name = "__init__"
    /\ Contains(out[1], "\n    def __init__():\n")
    /\ ~Contains(out[1], "_helper")

\* The last index of a body in lines, after the header at h: the lines
\* after the header that are empty or at least at the body's indentation.
BodyEnd(lines, h, body_indent) ==
    LET outside == {j \in (h + 1)..Len(lines) :
                       ~(lines[j] = "" \/ StartsWith(lines[j], body_indent))}
    IN  IF outside = {} THEN Len(lines)
        ELSE (CHOOSE j \in outside : \A k \in outside : j <= k) - 1

\* C7: a rendered class has the placeholder at its body's indentation iff
\* it produced no content: no docstring was rendered, it has no simple or
\* annotated assignment, and none of its defs and classes is kept.  Then
\* its body is that one placeholder; a class with content has none.
C7_ClassPlaceholder ==
    pc = "stubbed" =>
        LET lines == Split(out[1])
        IN  \A d \in AllDeclarations :
                LET h == HeaderAt(lines, d)
                    body_indent == Indent(d.depth + 1)
                    own == {j \in (h + 1)..BodyEnd(lines, h, body_indent) :
                               lines[j] = body_indent \o "..."}
                    docstring == StartsWith(LineAt(lines, h + 1), body_indent \o QQQ)
                    assignment == \E i \in 1..Len(d.n.body) :
                                      d.n.body[i].type \in {"Assign", "AnnAssign"}
                    member == \E i \in 1..Len(d.n.body) :
                                  /\ IsFunction(d.n.body[i]) \/ IsClass(d.n.body[i])
                                  /\ Kept(d.n.body[i])
                    content == docstring \/ assignment \/ member
                IN  (IsClass(d.n) /\ h > 0) =>
                        /\ own # {} <=> ~content
                        /\ ~content =>
                               /\ LineAt(lines, h + 1) = body_indent \o "..."
                               /\ ~StartsWith(LineAt(lines, h + 2), body_indent)

\* Without private members, a class whose only member is a class whose only
\* member is a private def has been stubbed: the inner class is a
\* placeholder, the outer one has none of its own.
C7_Witness ==
    /\ pc = "stubbed"
    /\ ~include_private
    /\ Len(tree) = 1
    /\ IsClass(tree[1]) /\ tree[1].name = "Public"
    /\ Len(tree[1].body) = 1
    /\ IsClass(tree[1].body[1]) /\ tree[1].body[1].name = "Shown"
    /\ Len(tree[1].body[1].body) = 1
    /\ IsFunction(tree[1].body[1].body[1])
    /\ Split(out[1]) = <<"# m.py:1-4", "class Public:", "",
                    "    # m.py:2-4", "    class Shown:", "        ...">>

\* C9: with docstrings included, a rendered def or class whose first body
\* statement is a string literal, whatever its text, has that text's
\* docstring block, one indent level deeper, right after its header line,
\* and a class then has no placeholder of its own; with docstrings left
\* out, no def or class has a docstring.
C9_DocstringEmitted ==
    pc = "stubbed" =>
        LET lines == Split(out[1])
        IN  \A d \in AllDeclarations :
                LET h == HeaderAt(lines, d)
                    body_indent == Indent(d.depth + 1)
                    text == get_docstring(d.n.body)
                IN  h > 0 =>
                        /\ (include_docstrings /\ text # None) =>
                               LET b == DocBlock(text[1], body_indent)
                               IN  /\ SubSeq(lines, h + 1, h + Len(b)) = b
                                   /\ IsClass(d.n) =>
                                          LineAt(lines, h + Len(b) + 1)
                                              # body_indent \o "..."
                        /\ ~include_docstrings =>
                               ~StartsWith(LineAt(lines, h + 1), body_indent \o QQQ)

====
